---- MODULE Spec2Model ----
(***************************************************************************)
(* Sparse LDLt factorization (sparse/linalg/cholesky.rs): ldl_symbolic,    *)
(* ldl_numeric, ldl_lsolve, ldl_dsolve, ldl_ltsolve.                       *)
(*                                                                         *)
(* Arrays are functions over 0..len-1, as in the source.  The element type *)
(* N is instantiated with the exact rationals, a pair <<num, den>> in      *)
(* lowest terms with den > 0.  A matrix is mat[col][row], a cell being     *)
(* <<>> (not stored) or <<v>> (stored value v, possibly an explicit 0).    *)
(***************************************************************************)
EXTENDS Integers, Sequences, FiniteSets

VARIABLES n, mat, perm, fill,
          l_colptr, parents, l_nz, flag_workspace,
          l_indices, l_data, diag, y_workspace, pattern_workspace,
          x, b,
          pc, err, k, e, i, len, top, t,
          run, prev, written, staleRead

vars == <<n, mat, perm, fill, l_colptr, parents, l_nz, flag_workspace,
          l_indices, l_data, diag, y_workspace, pattern_workspace,
          x, b, pc, err, k, e, i, len, top, t,
          run, prev, written, staleRead>>

(***************************************************************************)
(* Bounds of the inputs.                                                   *)
(***************************************************************************)
\* largest matrix dimension
MaxN == 3
\* what every caller-allocated buffer may hold before the first call
Fills == {0, 1}
\* stored cells of the strict upper triangle: absent, explicit zero, values
OffCells == {<<>>, <<0>>, <<1>>}
\* stored cells of the diagonal
DiagCells == {<<>>, <<1>>, <<2>>}
\* entries of a right-hand side
BVals == {0, 1}

(***************************************************************************)
(* N: Num -- exact rational arithmetic.                                    *)
(***************************************************************************)
Abs(a) == IF a < 0 THEN -a ELSE a

RECURSIVE Gcd(_, _)
Gcd(a, c) == IF c = 0 THEN a ELSE Gcd(c, a % c)

Norm(nu, de) ==
    LET g == Gcd(Abs(nu), Abs(de))
        s == IF de < 0 THEN -1 ELSE 1
    IN  <<(s * nu) \div g, (s * de) \div g>>

Zero == <<0, 1>>
Rat(v) == <<v, 1>>
RAdd(p, q) == Norm(p[1] * q[2] + q[1] * p[2], p[2] * q[2])
RSub(p, q) == Norm(p[1] * q[2] - q[1] * p[2], p[2] * q[2])
RMul(p, q) == Norm(p[1] * q[1], p[2] * q[2])
\* defined for q # Zero only; a zero divisor is a panic, taken by the caller
RDiv(p, q) == Norm(p[1] * q[2], p[2] * q[1])

(***************************************************************************)
(* Collaborators: storage, permutation, symmetry check.                    *)
(***************************************************************************)
Idx(m) == 0 .. (m - 1)

SymmetryCheck == {"CheckSymmetry", "DontCheckSymmetry"}

\* the matrix equals its transpose, in pattern and in value
is_symmetric(m) ==
    \A c \in DOMAIN m : \A r \in DOMAIN m : m[c][r] = m[r][c]

\* the permutations of 0..m-1
PermutationsOf(m) ==
    {f \in [Idx(m) -> Idx(m)] : \A u, v \in Idx(m) : u # v => f[u] # f[v]}

\* the original column that the permutation sends to target column kk
PermInv(pi, kk) == CHOOSE c \in DOMAIN pi : pi[c] = kk

\* the entries of original column c from stored row r on, rows relabelled
RECURSIVE PermutedVec(_, _, _, _)
PermutedVec(m, pi, c, r) ==
    IF r \notin DOMAIN m THEN <<>>
    ELSE (IF m[c][r] # <<>> THEN << <<pi[r], m[c][r][1]>> >> ELSE <<>>)
         \o PermutedVec(m, pi, c, r + 1)

\* outer_iterator_papt: item kk is (outer_ind, vec) of target column kk
OuterInd(pi, kk) == kk
OuterVec(m, pi, kk) == PermutedVec(m, pi, PermInv(pi, kk), 0)

\* (P A Pt)[r][c] as a rational, 0 where nothing is stored
PAPt(m, pi, r, c) ==
    LET cell == m[PermInv(pi, c)][PermInv(pi, r)]
    IN  IF cell = <<>> THEN Zero ELSE Rat(cell[1])

(***************************************************************************)
(* Inputs.                                                                 *)
(***************************************************************************)
UpperPos(m) == {rc \in Idx(m) \X Idx(m) : rc[1] < rc[2]}

\* the fully stored symmetric matrix with upper triangle up and diagonal dg
SymMat(m, up, dg) ==
    [c \in Idx(m) |-> [r \in Idx(m) |->
        IF r = c THEN dg[r]
        ELSE IF r < c THEN up[<<r, c>>] ELSE up[<<c, r>>]]]

\* m with the stored lower-triangle cell at row rc[2], column rc[1] replaced
Perturb(m, rc, cell) == [m EXCEPT ![rc[1]][rc[2]] = cell]

Init ==
    /\ n \in 1 .. MaxN
    /\ \E up \in [UpperPos(n) -> OffCells], dg \in [Idx(n) -> DiagCells] :
         \/ /\ mat = SymMat(n, up, dg)
            /\ perm \in PermutationsOf(n)
         \/ \E rc \in UpperPos(n), cell \in OffCells :
              /\ cell # up[rc]
              /\ mat = Perturb(SymMat(n, up, dg), rc, cell)
              /\ perm = [j \in Idx(n) |-> j]
    /\ fill \in Fills
    /\ l_colptr = [j \in 0 .. n |-> fill]
    /\ parents = [j \in Idx(n) |-> fill]
    /\ l_nz = [j \in Idx(n) |-> fill]
    /\ flag_workspace = [j \in Idx(n) |-> fill]
    /\ l_indices = <<>>
    /\ l_data = <<>>
    /\ diag = [j \in Idx(n) |-> Rat(fill)]
    /\ y_workspace = [j \in Idx(n) |-> Rat(fill)]
    /\ pattern_workspace = [j \in Idx(n) |-> fill]
    /\ x = <<>>
    /\ b = <<>>
    /\ pc = "symbolic"
    /\ err = "none"
    /\ k = 0 /\ e = 1 /\ i = 0 /\ len = 0 /\ top = 0 /\ t = 0
    /\ run = 0
    /\ prev = <<>>
    /\ written = [flag |-> {}, nz |-> {}, y |-> {}, pat |-> {}, l |-> {}]
    /\ staleRead = FALSE

Panic(why) ==
    /\ pc' = "panic"
    /\ err' = why

inputs == <<n, mat, perm, fill>>
symOut == <<l_colptr, parents, l_nz, flag_workspace>>
numOut == <<l_indices, l_data, diag>>
numScratch == <<y_workspace, pattern_workspace>>
solveVars == <<x, b>>
cursors == <<k, e, i, len, top, t>>
ghost == <<run, prev, written, staleRead>>

(***************************************************************************)
(* ldl_symbolic                                                            *)
(***************************************************************************)
\* the arms of the match exchanged
SymmetryGateSwapped(cs, m) == cs = "DontCheckSymmetry" /\ ~is_symmetric(m)

\* the symmetry gate: the call is refused
SymmetryGate(cs, m) == cs = "CheckSymmetry" /\ ~is_symmetric(m)

\* the checks a caller may ask for: an asymmetric matrix is only ever
\* passed with the check enabled
ChecksFor(m) ==
    IF is_symmetric(m) THEN SymmetryCheck ELSE {"CheckSymmetry"}

\* entry of ldl_symbolic: match check_symmetry
SymbolicEnter ==
    /\ pc = "symbolic"
    /\ \E cs \in ChecksFor(mat) :
         IF SymmetryGate(cs, mat)
         THEN /\ Panic("AsymmetricInput")
              /\ UNCHANGED <<k, e>>
         ELSE /\ pc' = "sym_col"
              /\ k' = 0
              /\ e' = 1
              /\ err' = err
    /\ UNCHANGED <<inputs, symOut, numOut, numScratch, solveVars,
                   i, len, top, t, ghost>>

\* head of the column loop: mark k visited, no parent, no entries yet
SymColumn ==
    /\ pc = "sym_col"
    /\ flag_workspace' = [flag_workspace EXCEPT ![k] = k]
    /\ parents' = [parents EXCEPT ![k] = -1]
    /\ l_nz' = [l_nz EXCEPT ![k] = 0]
    /\ e' = 1
    /\ pc' = "sym_entry"
    /\ UNCHANGED <<inputs, l_colptr, numOut, numScratch, solveVars,
                   err, k, i, len, top, t, ghost>>

\* the comparison reversed: the walk starts from the rows below the diagonal
SymVisitsBelow(inner_ind, val, outer_ind) == inner_ind > outer_ind

\* numerically zero entries skipped
SymVisitsNonzero(inner_ind, val, outer_ind) ==
    inner_ind < outer_ind /\ val # 0

\* does the entry (inner_ind, val) of column outer_ind start a tree walk
SymVisits(inner_ind, val, outer_ind) == inner_ind < outer_ind

\* next entry of the column, or the next column
SymEntry ==
    /\ pc = "sym_entry"
    /\ LET vec == OuterVec(mat, perm, k)
           outer_ind == OuterInd(perm, k)
       IN  IF e > Len(vec)
           THEN /\ k' = k + 1
                /\ pc' = IF k + 1 < n THEN "sym_col" ELSE "sym_colptr"
                /\ UNCHANGED <<e, i>>
           ELSE IF SymVisits(vec[e][1], vec[e][2], outer_ind)
                THEN /\ i' = vec[e][1]
                     /\ pc' = "sym_walk"
                     /\ UNCHANGED <<k, e>>
                ELSE /\ e' = e + 1
                     /\ UNCHANGED <<pc, k, i>>
    /\ UNCHANGED <<inputs, symOut, numOut, numScratch, solveVars,
                   err, len, top, t, ghost>>

\* parents[i] after the conditional assignment of the walk
AdoptParent(par, ii, outer_ind) ==
    IF par[ii] = -1 THEN [par EXCEPT ![ii] = outer_ind] ELSE par

\* one test and one body of the while loop that climbs the tree
SymWalk ==
    /\ pc = "sym_walk"
    /\ LET outer_ind == OuterInd(perm, k)
       IN  IF i \notin DOMAIN flag_workspace
           THEN /\ Panic("IndexOutOfBounds")
                /\ UNCHANGED <<parents, l_nz, flag_workspace, e, i>>
           ELSE IF flag_workspace[i] # outer_ind
                THEN /\ parents' = AdoptParent(parents, i, outer_ind)
                     /\ l_nz' = [l_nz EXCEPT ![i] = l_nz[i] + 1]
                     /\ flag_workspace' = [flag_workspace EXCEPT ![i] = outer_ind]
                     /\ i' = parents'[i]
                     /\ UNCHANGED <<pc, err, e>>
                ELSE /\ e' = e + 1
                     /\ pc' = "sym_entry"
                     /\ UNCHANGED <<parents, l_nz, flag_workspace, err, i>>
    /\ UNCHANGED <<inputs, l_colptr, numOut, numScratch, solveVars,
                   k, len, top, t, ghost>>

\* prev advanced before it is stored
RECURSIVE SumBelow(_, _)
SumBelow(nz, j) == IF j = 0 THEN 0 ELSE SumBelow(nz, j - 1) + nz[j - 1]

PrefixSumInclusive(nz, j) ==
    SumBelow(nz, IF j \in DOMAIN nz THEN j + 1 ELSE j)

\* the running sum prev when the loop reaches column j
RECURSIVE PrefixSum(_, _)
PrefixSum(nz, j) == IF j = 0 THEN 0 ELSE PrefixSum(nz, j - 1) + nz[j - 1]

\* the prefix sums of l_nz, and the total in l_colptr[n]
SymColptr ==
    /\ pc = "sym_colptr"
    /\ l_colptr' = [j \in 0 .. n |-> PrefixSum(l_nz, j)]
    /\ pc' = "sym_done"
    /\ UNCHANGED <<inputs, parents, l_nz, flag_workspace, numOut, numScratch,
                   solveVars, err, cursors, ghost>>

(***************************************************************************)
(* The caller between the two phases (test_factor1): buffers of l_colptr[n] *)
(* entries for the factor; l_nz and flag_workspace are passed on as        *)
(* ldl_symbolic left them.                                                 *)
(***************************************************************************)
NoneWritten == [flag |-> {}, nz |-> {}, y |-> {}, pat |-> {}, l |-> {}]

Mark(w, f, S) == [w EXCEPT ![f] = @ \cup S]

NumericStart ==
    /\ pc = "sym_done"
    /\ l_indices' = [p \in Idx(l_colptr[n]) |-> fill]
    /\ l_data' = [p \in Idx(l_colptr[n]) |-> Rat(fill)]
    /\ run' = 1
    /\ written' = NoneWritten
    /\ k' = 0
    /\ pc' = "num_col"
    /\ UNCHANGED <<inputs, symOut, diag, numScratch, solveVars,
                   err, e, i, len, top, t, prev, staleRead>>

(***************************************************************************)
(* ldl_numeric                                                             *)
(***************************************************************************)
\* the head of the column loop without the reset of y_workspace[k]
NumColumnKeepY ==
    /\ pc = "num_col"
    /\ flag_workspace' = [flag_workspace EXCEPT ![k] = k]
    /\ l_nz' = [l_nz EXCEPT ![k] = 0]
    /\ top' = n
    /\ e' = 1
    /\ pc' = "num_entry"
    /\ written' = Mark(Mark(written, "flag", {k}), "nz", {k})
    /\ UNCHANGED <<inputs, l_colptr, parents, numOut, numScratch,
                   solveVars, err, k, i, len, t, run, prev, staleRead>>

\* head of the column loop: the three resets and top = n
NumColumn ==
    /\ pc = "num_col"
    /\ flag_workspace' = [flag_workspace EXCEPT ![k] = k]
    /\ y_workspace' = [y_workspace EXCEPT ![k] = Zero]
    /\ l_nz' = [l_nz EXCEPT ![k] = 0]
    /\ top' = n
    /\ e' = 1
    /\ pc' = "num_entry"
    /\ written' = Mark(Mark(Mark(written, "flag", {k}), "y", {k}), "nz", {k})
    /\ UNCHANGED <<inputs, l_colptr, parents, numOut, pattern_workspace,
                   solveVars, err, k, i, len, t, run, prev, staleRead>>

\* the filter of the entry loop
NumKeeps(inner_ind, kk) == inner_ind <= kk

\* next entry of the column: filtered out, or accumulated into y
NumEntry ==
    /\ pc = "num_entry"
    /\ LET vec == OuterVec(mat, perm, k)
       IN  IF e > Len(vec)
           THEN /\ pc' = "num_diag"
                /\ UNCHANGED <<y_workspace, e, i, len, staleRead>>
           ELSE IF NumKeeps(vec[e][1], k)
                THEN /\ y_workspace' = [y_workspace EXCEPT
                            ![vec[e][1]] = RAdd(@, Rat(vec[e][2]))]
                     /\ i' = vec[e][1]
                     /\ len' = 0
                     /\ pc' = "num_walk"
                     /\ staleRead' = (staleRead \/ vec[e][1] \notin written.y)
                     /\ UNCHANGED e
                ELSE /\ e' = e + 1
                     /\ UNCHANGED <<y_workspace, pc, i, len, staleRead>>
    /\ UNCHANGED <<inputs, symOut, numOut, pattern_workspace, solveVars,
                   err, k, top, t, run, prev, written>>

\* one test and one body of the while loop that collects the path
NumWalk ==
    /\ pc = "num_walk"
    /\ LET outer_ind == OuterInd(perm, k)
       IN  IF i \notin DOMAIN flag_workspace
           THEN /\ Panic("IndexOutOfBounds")
                /\ UNCHANGED <<pattern_workspace, flag_workspace, i, len,
                               written, staleRead>>
           ELSE IF flag_workspace[i] # outer_ind
                THEN IF len \notin DOMAIN pattern_workspace
                     THEN /\ Panic("IndexOutOfBounds")
                          /\ UNCHANGED <<pattern_workspace, flag_workspace, i,
                                         len, written, staleRead>>
                     ELSE /\ pattern_workspace' =
                                [pattern_workspace EXCEPT ![len] = i]
                          /\ len' = len + 1
                          /\ flag_workspace' = [flag_workspace EXCEPT ![i] = k]
                          /\ i' = parents[i]
                          /\ written' = Mark(Mark(written, "pat", {len}),
                                             "flag", {i})
                          /\ staleRead' = (staleRead \/ i \notin written.flag)
                          /\ UNCHANGED <<pc, err>>
                ELSE /\ pc' = "num_push"
                     /\ staleRead' = (staleRead \/ i \notin written.flag)
                     /\ UNCHANGED <<pattern_workspace, flag_workspace, i, len,
                                    written, err>>
    /\ UNCHANGED <<inputs, l_colptr, parents, l_nz, numOut, y_workspace,
                   solveVars, k, e, top, t, run, prev>>

\* the copy reads the prefix before len is decremented
PushOneLate(pat, tp, ln) == [pat EXCEPT ![tp - 1] = pat[ln]]

\* pattern_workspace after one copy from the prefix to the suffix
PushOne(pat, tp, ln) == [pat EXCEPT ![tp - 1] = pat[ln - 1]]

\* one turn of the loop that moves the path onto the suffix
NumPush ==
    /\ pc = "num_push"
    /\ IF len > 0
       THEN IF top = 0
            THEN /\ Panic("IndexOutOfBounds")
                 /\ UNCHANGED <<pattern_workspace, e, len, top, written,
                                staleRead>>
            ELSE /\ top' = top - 1
                 /\ len' = len - 1
                 /\ pattern_workspace' = PushOne(pattern_workspace, top, len)
                 /\ written' = Mark(written, "pat", {top - 1})
                 /\ staleRead' = (staleRead \/ (len - 1) \notin written.pat)
                 /\ UNCHANGED <<pc, err, e>>
       ELSE /\ e' = e + 1
            /\ pc' = "num_entry"
            /\ UNCHANGED <<pattern_workspace, err, len, top, written,
                           staleRead>>
    /\ UNCHANGED <<inputs, symOut, numOut, y_workspace, solveVars,
                   k, i, t, run, prev>>

\* the accumulated diagonal added to what diag[k] held
PivotAccumulate(dk, yk) == RAdd(dk, yk)

\* diag[k] before the elimination of row k
PivotStart(dk, yk) == yk

\* diag[k] takes the accumulated diagonal, y[k] is cleared
NumDiag ==
    /\ pc = "num_diag"
    /\ diag' = [diag EXCEPT ![k] = PivotStart(@, y_workspace[k])]
    /\ y_workspace' = [y_workspace EXCEPT ![k] = Zero]
    /\ t' = top
    /\ pc' = "num_pattern"
    /\ staleRead' = (staleRead \/ k \notin written.y)
    /\ UNCHANGED <<inputs, symOut, l_indices, l_data, pattern_workspace,
                   solveVars, err, k, e, i, len, top, run, prev, written>>

\* the update of y by the entries p .. p2-1 already written in a column
RECURSIVE Eliminate(_, _, _, _, _, _)
Eliminate(y, li, ld, yi, p, p2) ==
    IF p >= p2 THEN y
    ELSE Eliminate([y EXCEPT ![li[p]] = RSub(@, RMul(ld[p], yi))],
                   li, ld, yi, p + 1, p2)

\* y_workspace[i] not cleared
KeepY(y, ii) == y

\* y_workspace[i] after yi has been read
ClearY(y, ii) == [y EXCEPT ![ii] = Zero]

\* the new factor entry
FactorEntry(yi, d) == RDiv(yi, d)

\* the square of the entry subtracted, without the scaling by D
DiagUpdateSquared(dk, l_ki, yi) == RSub(dk, RMul(l_ki, l_ki))

\* diag[k] after the entry l_ki of row k
DiagUpdate(dk, l_ki, yi) == RSub(dk, RMul(l_ki, yi))

\* one turn of the 'pattern loop: row i of the suffix
NumPattern ==
    /\ pc = "num_pattern"
    /\ IF t >= n
       THEN /\ pc' = "num_check"
            /\ UNCHANGED <<l_nz, numOut, y_workspace, err, t, written,
                           staleRead>>
       ELSE LET ii == pattern_workspace[t]
                inRange == ii \in DOMAIN y_workspace
                p1 == l_colptr[ii]
                p2 == l_colptr[ii] + l_nz[ii]
                slice == p1 .. (p2 - 1)
                readable == /\ inRange
                            /\ p2 \in DOMAIN l_indices
                            /\ \A p \in slice :
                                 /\ p \in DOMAIN l_indices
                                 /\ l_indices[p] \in DOMAIN y_workspace
                yi == y_workspace[ii]
                l_ki == FactorEntry(yi, diag[ii])
            IN  IF ~readable
                THEN /\ Panic("IndexOutOfBounds")
                     /\ UNCHANGED <<l_nz, numOut, y_workspace, t, written,
                                    staleRead>>
                ELSE IF diag[ii] = Zero
                THEN /\ Panic("DivisionByZero")
                     /\ UNCHANGED <<l_nz, numOut, y_workspace, t, written,
                                    staleRead>>
                ELSE /\ y_workspace' = Eliminate(ClearY(y_workspace, ii),
                                          l_indices, l_data, yi, p1, p2)
                     /\ diag' = [diag EXCEPT ![k] = DiagUpdate(@, l_ki, yi)]
                     /\ l_indices' = [l_indices EXCEPT ![p2] = k]
                     /\ l_data' = [l_data EXCEPT ![p2] = l_ki]
                     /\ l_nz' = [l_nz EXCEPT ![ii] = @ + 1]
                     /\ t' = t + 1
                     /\ written' = Mark(written, "l", {p2})
                     /\ staleRead' =
                          (\/ staleRead
                           \/ t \notin written.pat
                           \/ ii \notin written.y
                           \/ ii \notin written.nz
                           \/ ~(slice \subseteq written.l)
                           \/ \E p \in slice : l_indices[p] \notin written.y)
                     /\ UNCHANGED <<pc, err>>
    /\ UNCHANGED <<inputs, l_colptr, parents, flag_workspace,
                   pattern_workspace, solveVars, k, e, i, len, top, run, prev>>

\* a test of the sign in place of the test for zero
IsNegativePivot(d) == d[1] < 0

\* the pivot test that ends a column
IsSingularPivot(d) == d = Zero

NumCheck ==
    /\ pc = "num_check"
    /\ IF IsSingularPivot(diag[k])
       THEN /\ Panic("SingularMatrix")
            /\ UNCHANGED k
       ELSE /\ k' = k + 1
            /\ pc' = IF k + 1 < n THEN "num_col" ELSE "num_done"
            /\ err' = err
    /\ UNCHANGED <<inputs, symOut, numOut, numScratch, solveVars,
                   e, i, len, top, t, ghost>>

\* the caller factorizes again over the same buffers, with the write
\* cursors zeroed or left as the first pass left them
Refactor(reset) ==
    /\ pc = "num_done"
    /\ run = 1
    /\ prev' = <<l_indices, l_data, diag>>
    /\ l_nz' = IF reset THEN [j \in Idx(n) |-> 0] ELSE l_nz
    /\ run' = 2
    /\ written' = NoneWritten
    /\ k' = 0
    /\ pc' = "num_col"
    /\ UNCHANGED <<inputs, l_colptr, parents, flag_workspace, numOut,
                   numScratch, solveVars, err, e, i, len, top, t, staleRead>>

(***************************************************************************)
(* ldl_lsolve, ldl_dsolve, ldl_ltsolve                                     *)
(***************************************************************************)
\* CsMat::from_slices(CSC, n, n, ..).unwrap() accepts the factor: the column
\* pointers are monotone from 0 to the number of entries, and every column
\* holds strictly increasing row indices below n
FromSlicesOk(cp, li, ld) ==
    LET nn == Cardinality(DOMAIN cp) - 1
    IN  /\ cp[0] = 0
        /\ cp[nn] = Cardinality(DOMAIN li)
        /\ DOMAIN li = DOMAIN ld
        /\ \A c \in Idx(nn) : cp[c] <= cp[c + 1]
        /\ \A p \in DOMAIN li : li[p] \in Idx(nn)
        /\ \A c \in Idx(nn) : \A p \in cp[c] .. (cp[c + 1] - 2) :
             li[p] < li[p + 1]

\* the entries p .. pend-1 of column col: x[row] -= value * x[col]
RECURSIVE LsolveCol(_, _, _, _, _, _)
LsolveCol(li, ld, xv, col, p, pend) ==
    IF p >= pend THEN xv
    ELSE LsolveCol(li, ld,
                   [xv EXCEPT ![li[p]] = RSub(@, RMul(ld[p], xv[col]))],
                   col, p + 1, pend)

\* the columns col, col+1, .. in increasing order
RECURSIVE LsolveFrom(_, _, _, _, _)
LsolveFrom(cp, li, ld, xv, col) ==
    IF col + 1 \notin DOMAIN cp THEN xv
    ELSE LsolveFrom(cp, li, ld,
                    LsolveCol(li, ld, xv, col, cp[col], cp[col + 1]), col + 1)

ldl_lsolve(cp, li, ld, xv) == LsolveFrom(cp, li, ld, xv, 0)

\* the entries p .. pend-1 of a window: x[outer_ind] -= val * x[inner_ind]
RECURSIVE LtsolveCol(_, _, _, _, _, _)
LtsolveCol(li, ld, xv, outer_ind, p, pend) ==
    IF p >= pend THEN xv
    ELSE LtsolveCol(li, ld,
                    [xv EXCEPT ![outer_ind] = RSub(@, RMul(ld[p], xv[li[p]]))],
                    outer_ind, p + 1, pend)

\* the windows outer_ind, outer_ind-1, .., 0 in decreasing order
RECURSIVE LtsolveFrom(_, _, _, _, _)
LtsolveFrom(cp, li, ld, xv, outer_ind) ==
    IF outer_ind < 0 THEN xv
    ELSE LtsolveFrom(cp, li, ld,
                     LtsolveCol(li, ld, xv, outer_ind,
                                cp[outer_ind], cp[outer_ind + 1]),
                     outer_ind - 1)

\* the windows in increasing order, the reversal forgotten
RECURSIVE LtsolveAscending(_, _, _, _, _)
LtsolveAscending(cp, li, ld, xv, outer_ind) ==
    IF outer_ind + 1 \notin DOMAIN cp THEN xv
    ELSE LtsolveAscending(cp, li, ld,
                          LtsolveCol(li, ld, xv, outer_ind,
                                     cp[outer_ind], cp[outer_ind + 1]),
                          outer_ind + 1)

ldl_ltsolve_ascending(cp, li, ld, xv) == LtsolveAscending(cp, li, ld, xv, 0)

ldl_ltsolve(cp, li, ld, xv) ==
    LtsolveFrom(cp, li, ld, xv, Cardinality(DOMAIN cp) - 2)

ldl_dsolve(d, xv) ==
    [j \in DOMAIN xv |-> IF j \in DOMAIN d THEN RDiv(xv[j], d[j]) ELSE xv[j]]

\* x = b.clone(); ldl_lsolve(l_colptr, l_indices, l_data, &mut x)
Lsolve(bb) ==
    /\ pc = "num_done"
    /\ b' = [j \in Idx(n) |-> Rat(bb[j])]
    /\ IF FromSlicesOk(l_colptr, l_indices, l_data)
       THEN /\ x' = ldl_lsolve(l_colptr, l_indices, l_data, b')
            /\ pc' = "lsolved"
            /\ err' = err
       ELSE /\ Panic("BadStructure")
            /\ x' = b'
    /\ UNCHANGED <<inputs, symOut, numOut, numScratch, cursors, ghost>>

\* ldl_dsolve(diag, &mut x)
Dsolve ==
    /\ pc = "lsolved"
    /\ IF \E j \in DOMAIN x : j \in DOMAIN diag /\ diag[j] = Zero
       THEN /\ Panic("DivisionByZero")
            /\ x' = x
       ELSE /\ x' = ldl_dsolve(diag, x)
            /\ pc' = "dsolved"
            /\ err' = err
    /\ UNCHANGED <<inputs, symOut, numOut, numScratch, b, cursors, ghost>>

\* ldl_ltsolve(l_colptr, l_indices, l_data, &mut x)
Ltsolve ==
    /\ pc = "dsolved"
    /\ x' = ldl_ltsolve(l_colptr, l_indices, l_data, x)
    /\ pc' = "solved"
    /\ UNCHANGED <<inputs, symOut, numOut, numScratch, b, err, cursors, ghost>>

Next ==
    \/ SymbolicEnter
    \/ SymColumn
    \/ SymEntry
    \/ SymWalk
    \/ SymColptr
    \/ NumericStart
    \/ NumColumn
    \/ NumEntry
    \/ NumWalk
    \/ NumPush
    \/ NumDiag
    \/ NumPattern
    \/ NumCheck
    \/ \E reset \in BOOLEAN : Refactor(reset)
    \/ \E bb \in [Idx(n) -> BVals] : Lsolve(bb)
    \/ Dsolve
    \/ Ltsolve

Spec == Init /\ [][Next]_vars

(***************************************************************************)
(* Properties.  Helpers read the factor as dense matrices.                 *)
(***************************************************************************)
Identity(m) == [j \in Idx(m) |-> j]

\* where the numeric pass has returned normally
Factored == pc \in {"num_done", "lsolved", "dsolved", "solved"}

\* the slice of factor column c
Slice(c) == l_colptr[c] .. (l_colptr[c + 1] - 1)

\* L[r][c] read from (l_colptr, l_indices, l_data), unit diagonal implicit
RECURSIVE SliceSum(_, _, _)
SliceSum(r, p, pend) ==
    IF p >= pend THEN Zero
    ELSE RAdd(IF l_indices[p] = r THEN l_data[p] ELSE Zero,
              SliceSum(r, p + 1, pend))

LEntry(r, c) ==
    IF r = c THEN Rat(1) ELSE SliceSum(r, l_colptr[c], l_colptr[c + 1])

\* (L D Lt)[r][c], the sum over j < m
RECURSIVE LDLt(_, _, _)
LDLt(r, c, m) ==
    IF m = 0 THEN Zero
    ELSE RAdd(LDLt(r, c, m - 1),
              RMul(RMul(LEntry(r, m - 1), diag[m - 1]), LEntry(c, m - 1)))

\* ((P A Pt) x)[r], the sum over c < m
RECURSIVE MatVec(_, _)
MatVec(r, m) ==
    IF m = 0 THEN Zero
    ELSE RAdd(MatVec(r, m - 1), RMul(PAPt(mat, perm, r, m - 1), x[m - 1]))

\* C1: when ldl_symbolic and ldl_numeric have completed without a zero
\* pivot, the unit lower-triangular L and the diagonal D they stored satisfy
\* L D Lt = P A Pt in every entry.
C1_Reconstruction ==
    pc = "num_done" =>
        \A r \in Idx(n) : \A c \in Idx(n) :
            LDLt(r, c, n) = PAPt(mat, perm, r, c)

\* a factor of a 3x3 matrix under a non-identity permutation, with a
\* non-integer entry in L and a negative pivot in D
C1_Witness ==
    /\ pc = "num_done"
    /\ n >= 3
    /\ perm # Identity(n)
    /\ \E p \in DOMAIN l_data : l_data[p][2] > 1
    /\ \E j \in Idx(n) : diag[j][1] < 0

\* C2: after ldl_lsolve, ldl_dsolve, ldl_ltsolve in place on x = b, x is
\* the solution of (P A Pt) x = b.
C2_SolveRoundTrip ==
    pc = "solved" => \A r \in Idx(n) : MatVec(r, n) = b[r]

\* a solved 3x3 system with off-diagonal factor entries, a non-zero
\* right-hand side and a non-integer solution
C2_Witness ==
    /\ pc = "solved"
    /\ n >= 3
    /\ l_colptr[n] >= 2
    /\ \E j \in Idx(n) : b[j] # Zero
    /\ \E j \in Idx(n) : x[j][2] > 1

\* C3: an asymmetric matrix passed with CheckSymmetry makes ldl_symbolic
\* fail with the asymmetric-input error, and l_colptr, parents, l_nz and
\* flag_workspace are as the caller passed them.
C3_SymmetryGate ==
    (~is_symmetric(mat) /\ pc # "symbolic") =>
        /\ pc = "panic"
        /\ err = "AsymmetricInput"
        /\ l_colptr = [j \in 0 .. n |-> fill]
        /\ parents = [j \in Idx(n) |-> fill]
        /\ l_nz = [j \in Idx(n) |-> fill]
        /\ flag_workspace = [j \in Idx(n) |-> fill]

\* the call was refused for a matrix whose two triangles store different
\* values at mirrored places, the buffers holding non-zero contents
C3_Witness ==
    /\ err = "AsymmetricInput"
    /\ fill # 0
    /\ \E c \in Idx(n) : \E r \in Idx(n) :
         mat[c][r] # <<>> /\ mat[r][c] # <<>> /\ mat[c][r] # mat[r][c]

NumericPcs == {"num_col", "num_entry", "num_walk", "num_push", "num_diag",
               "num_pattern", "num_check"}

\* C4: ldl_numeric fails with the singular-matrix error at the first column
\* k whose diag[k] is zero after its elimination step, no later column is
\* touched, and every divisor diag[i] of the elimination is non-zero.
C4_SingularPivot ==
    /\ (pc \in NumericPcs \cup {"num_done"}) =>
           \A j \in Idx(n) : j < k => diag[j] # Zero
    /\ err = "SingularMatrix" =>
           /\ pc = "panic"
           /\ diag[k] = Zero
           /\ \A j \in Idx(n) : j < k => diag[j] # Zero
           /\ written.flag = 0 .. k
           /\ written.y = 0 .. k
    /\ (pc = "num_pattern" /\ t < n) =>
           /\ pattern_workspace[t] < k
           /\ diag[pattern_workspace[t]] # Zero
    /\ err # "DivisionByZero"

\* the pass stopped at a column after the first, whose pivot was cancelled
\* by the elimination
C4_Witness ==
    /\ err = "SingularMatrix"
    /\ k >= 1
    /\ l_nz # [j \in Idx(n) |-> 0]

\* the columns whose head the symbolic pass has executed
SymProcessed ==
    IF pc = "symbolic" \/ err = "AsymmetricInput" THEN {}
    ELSE IF pc = "sym_col" THEN 0 .. (k - 1)
    ELSE IF pc \in {"sym_entry", "sym_walk"} THEN 0 .. k
    ELSE Idx(n)

\* C5: parents[i] is the root sentinel -1 or an index with
\* i < parents[i] < n, at the end of ldl_symbolic and at every step of it,
\* and the tree walk never uses the sentinel as an index.
C5_EliminationTree ==
    /\ \A j \in SymProcessed :
           parents[j] = -1 \/ (j < parents[j] /\ parents[j] < n)
    /\ pc \in {"sym_col", "sym_entry", "sym_walk"} =>
           \A j \in SymProcessed : parents[j] <= k
    /\ pc = "sym_walk" => (i \in Idx(n) /\ i <= k)
    /\ err # "IndexOutOfBounds"

\* a finished tree with a path of two edges
C5_Witness ==
    /\ pc = "sym_done"
    /\ \E j \in Idx(n) :
         /\ parents[j] # -1
         /\ parents[parents[j]] # -1

\* C6: after ldl_symbolic l_colptr[0] = 0 and the column widths are the
\* counts l_nz; in ldl_numeric every write position is inside its column
\* slice, on return every slice is filled exactly, and the row indices of
\* column i are greater than i and less than n.
C6_StructureAgreement ==
    /\ pc = "sym_done" =>
           /\ l_colptr[0] = 0
           /\ \A j \in Idx(n) : l_colptr[j + 1] - l_colptr[j] = l_nz[j]
    /\ (pc = "num_pattern" /\ t < n) =>
           LET ii == pattern_workspace[t]
           IN  /\ ii \in Idx(n)
               /\ l_colptr[ii] + l_nz[ii] < l_colptr[ii + 1]
    /\ pc = "num_done" =>
           /\ \A j \in Idx(n) : l_nz[j] = l_colptr[j + 1] - l_colptr[j]
           /\ \A j \in Idx(n) : \A p \in Slice(j) :
                  j < l_indices[p] /\ l_indices[p] < n
    /\ err # "IndexOutOfBounds"

\* is (r, c) stored in P A Pt
StoredAt(r, c) == mat[PermInv(perm, c)][PermInv(perm, r)] # <<>>

\* a completed factor with a fill-in entry, stored in L but not in P A Pt
C6_Witness ==
    /\ pc = "num_done"
    /\ \E c \in Idx(n) : \E p \in Slice(c) : ~StoredAt(l_indices[p], c)

\* the strictly lower structure of the factor after the elimination of the
\* columns below j, from the stored pattern of P A Pt alone
RECURSIVE FillUpTo(_)
FillUpTo(j) ==
    IF j = 0
    THEN {rc \in Idx(n) \X Idx(n) : rc[1] > rc[2] /\ StoredAt(rc[2], rc[1])}
    ELSE LET F == FillUpTo(j - 1)
         IN  F \cup {rc \in Idx(n) \X Idx(n) :
                        /\ rc[1] > rc[2]
                        /\ <<rc[1], j - 1>> \in F
                        /\ <<rc[2], j - 1>> \in F}

ColumnRows(F, c) == {r \in Idx(n) : <<r, c>> \in F}

PatternParent(F, c) ==
    IF ColumnRows(F, c) = {} THEN -1
    ELSE CHOOSE r \in ColumnRows(F, c) : \A q \in ColumnRows(F, c) : r <= q

\* C7: l_colptr, parents and l_nz after ldl_symbolic are a function of the
\* stored pattern and the permutation alone, so two matrices that differ
\* only in their stored values get identical arrays.
C7_PatternDeterminism ==
    pc = "sym_done" =>
        LET F == FillUpTo(n)
        IN  /\ parents = [j \in Idx(n) |-> PatternParent(F, j)]
            /\ l_nz = [j \in Idx(n) |-> Cardinality(ColumnRows(F, j))]
            /\ l_colptr = [j \in 0 .. n |->
                              Cardinality({rc \in F : rc[2] < j})]

\* a symbolic result for a matrix that stores an explicit zero off the
\* diagonal, in a column of the factor that is not empty
C7_Witness ==
    /\ pc = "sym_done"
    /\ l_colptr[n] >= 2
    /\ \E c \in Idx(n) : \E r \in Idx(n) : r # c /\ mat[c][r] = <<0>>

\* C8: a second ldl_numeric over the same matrix, l_colptr, parents and
\* permutation returns the l_indices, l_data and diag of the first.
C8_Idempotence ==
    run = 2 =>
        /\ pc # "panic"
        /\ pc = "num_done" => <<l_indices, l_data, diag>> = prev

\* a second pass that has returned a factor with non-zero entries
C8_Witness ==
    /\ run = 2
    /\ pc = "num_done"
    /\ \E p \in DOMAIN l_data : l_data[p] # Zero

\* the nodes on the tree path from ii up to, and without, kk
RECURSIVE PathUp(_, _)
PathUp(ii, kk) ==
    IF ii = kk \/ ii \notin Idx(n) THEN {} ELSE {ii} \cup PathUp(parents[ii], kk)

\* the rows above the diagonal stored in target column kk
RowsAbove(kk) == {r \in Idx(n) : r < kk /\ StoredAt(r, kk)}

Suffix == top .. (n - 1)

\* C9: after the pattern-discovery loop of column k the suffix
\* pattern_workspace[top..n] has no repeated index, only indices below k,
\* exactly the nodes on the tree paths from the stored rows i < k up to k,
\* every node before its parent; and len <= top throughout.
C9_TopologicalPattern ==
    /\ pc = "num_diag" =>
           /\ \A u \in Suffix : \A v \in Suffix :
                  u # v => pattern_workspace[u] # pattern_workspace[v]
           /\ \A u \in Suffix : pattern_workspace[u] \in Idx(n)
                                /\ pattern_workspace[u] < k
           /\ {pattern_workspace[u] : u \in Suffix}
                  = UNION {PathUp(r, k) : r \in RowsAbove(k)}
           /\ \A u \in Suffix : \A v \in Suffix :
                  pattern_workspace[v] = parents[pattern_workspace[u]]
                      => u < v
    /\ pc \in {"num_walk", "num_push"} => len <= top

\* a suffix that holds a node followed by its parent
C9_Witness ==
    /\ pc = "num_diag"
    /\ top + 2 <= n
    /\ \E u \in Suffix : \E v \in Suffix :
         u < v /\ pattern_workspace[v] = parents[pattern_workspace[u]]

\* C10: ldl_numeric reads no cell of l_nz, flag_workspace, y_workspace,
\* pattern_workspace (nor of l_indices, l_data) that the same call has not
\* written before; y_workspace[0..k] is zero at the end of column step k;
\* and a pass started on the buffers a previous pass left returns the same
\* factor.
C10_ScratchIndependence ==
    /\ ~staleRead
    /\ pc = "num_check" => \A j \in Idx(n) : j <= k => y_workspace[j] = Zero
    /\ err = "SingularMatrix" =>
           \A j \in Idx(n) : j <= k => y_workspace[j] = Zero
    /\ Factored => \A j \in Idx(n) : y_workspace[j] = Zero
    /\ (run = 2 /\ pc = "num_done") => <<l_indices, l_data, diag>> = prev
    /\ err # "IndexOutOfBounds"

\* the second pass has finished column 0 on write cursors and flags that
\* the first pass left non-zero, the first having started on non-zero
\* buffers
C10_Witness ==
    /\ run = 2
    /\ fill # 0
    /\ pc = "num_check"
    /\ k = 0
    /\ \E j \in Idx(n) : j > 0 /\ l_nz[j] > 0 /\ flag_workspace[j] # 0
====
